---- MODULE Spec2Model ----
(***************************************************************************)
(* Model of dataprep/eda/missing/computation.py: the three analyzers       *)
(* _calc_nonzero_count, _calc_missing_impact, _calc_missing_impact_y and   *)
(* the dispatcher plot_missing.                                            *)
(*                                                                         *)
(* A data frame is a record                                                *)
(*   [columns, dtypes, index, values]                                      *)
(* where values[r][c] is the cell of row r and column c (df.values), index *)
(* holds the row labels and dtypes[c] is what get_type answers for column  *)
(* c.  A rate n / d is kept as the pair <<n, d>> with d > 0.               *)
(***************************************************************************)
EXTENDS Integers, Sequences, FiniteSets, TLC

\* ------------------------------------------------------------------ bounds
MaxRows == 3
MaxCols == 2
MaxImpactCols == 3
MaxDispatchRows == 1
MaxImpactRows == 2

\* --------------------------------------------------------------- constants
None == "None"
NaN == "NaN"
Cells == {NaN, "1"}

\* an optional value that is not a string: <<>> is Python's None, <<v>> is v
Nothing == <<>>
Some(v) == <<v>>
Get(o) == o[1]

TYPE_NUM == "TYPE_NUM"
TYPE_CAT == "TYPE_CAT"
TYPE_UNSUP == "TYPE_UNSUP"
DataType == {TYPE_NUM, TYPE_CAT, TYPE_UNSUP}

ZeroDivisionError == "ZeroDivisionError"
KeyError == "KeyError"
UnsupportedColumnType == "ValueError: the column's data type is error"
InvalidArguments == "ValueError: Please give a value to x_name"

Analyzers == {"_calc_nonzero_count", "_calc_missing_impact", "_calc_missing_impact_y"}

ColumnPool == <<"A", "B", "C", "D", "E">>
NotAColumn == "Z"

VARIABLES pd_data_frame, x_name, y_name, num_rows, num_cols, entry, pc,
          calls, pd_data_frame_value, count_nonzero_list, computed, order,
          intermediate, error, fig, return_intermediate, returned, kinds

vars == <<pd_data_frame, x_name, y_name, num_rows, num_cols, entry, pc,
          calls, pd_data_frame_value, count_nonzero_list, computed, order,
          intermediate, error, fig, return_intermediate, returned, kinds>>

\* the arguments of the call, and what the caller has kept of earlier calls
args == <<pd_data_frame, x_name, y_name, num_rows, num_cols, entry,
          return_intermediate, kinds>>

\* ------------------------------------------------------------ data frames
Min(a, b) == IF a < b THEN a ELSE b

Reverse(s) == [i \in 1..Len(s) |-> s[Len(s) + 1 - i]]

Range(s) == {s[i] : i \in 1..Len(s)}

Frame(cols, types, vals) ==
    [columns |-> cols, dtypes |-> types,
     index |-> [r \in 1..Len(vals) |-> r - 1], values |-> vals]

\* every frame with the given column lists, at most maxR rows, and dtypes
\* drawn from types
Tables(colLists, maxR, types) ==
    UNION {UNION {{Frame(cols, t, v) : t \in [1..Len(cols) -> types],
                                       v \in [1..R -> [1..Len(cols) -> Cells]]}
                  : R \in 0..maxR}
           : cols \in colLists}

Prefixes(maxC) == {SubSeq(ColumnPool, 1, C) : C \in 1..maxC}

\* df.values.T
Transpose(df) ==
    [c \in 1..Len(df.columns) |-> [r \in 1..Len(df.values) |-> df.values[r][c]]]

\* pd.isnull, element by element over a 2-d array
isnull(matrix) ==
    [i \in 1..Len(matrix) |-> [j \in 1..Len(matrix[i]) |-> matrix[i][j] = NaN]]

\* ndarray * 1 : booleans become 0 / 1
TimesOne(matrix) ==
    [i \in 1..Len(matrix) |->
        [j \in 1..Len(matrix[i]) |-> IF matrix[i][j] THEN 1 ELSE 0]]

\* seq[:n] of Python; n = None stands for the full slice
Slice(s, n) == IF n = Nothing THEN s ELSE SubSeq(s, 1, Min(Get(n), Len(s)))

\* matrix[:n_first, :n_second]
Slice2(matrix, n_first, n_second) ==
    LET kept == Slice(matrix, n_first)
    IN  [i \in 1..Len(kept) |-> Slice(kept[i], n_second)]

RECURSIVE count_nonzero(_)
count_nonzero(data) ==
    IF data = <<>> THEN 0
    ELSE (IF Head(data) THEN 1 ELSE 0) + count_nonzero(Tail(data))

\* the outcome of a task: <<n, d>> is the float n / d, <<e>> is "raises e"
Raise(e) == <<e>>
Raised(outcome) == Len(outcome) = 1

\* a slip of _calc_nonzero_rate: the zero (present) entries are counted
_calc_nonzero_rate_zeros(data, length) ==
    IF length = 0 THEN Raise(ZeroDivisionError)
    ELSE <<Len(data) - count_nonzero(data), length>>

_calc_nonzero_rate(data, length) ==
    IF length = 0 THEN Raise(ZeroDivisionError)
    ELSE <<count_nonzero(data), length>>

\* a slip of the truncation: the two caps applied to the wrong axes
Truncate_swapped(matrix, rows, cols) ==
    IF rows # Nothing /\ cols # Nothing THEN Slice2(matrix, rows, cols)
    ELSE IF cols # Nothing THEN Slice2(matrix, Nothing, cols)
    ELSE IF rows # Nothing THEN Slice2(matrix, rows, Nothing)
    ELSE matrix

\* lines 58-65 of _calc_nonzero_count
Truncate(matrix, rows, cols) ==
    IF rows # Nothing /\ cols # Nothing THEN Slice2(matrix, cols, rows)
    ELSE IF cols # Nothing THEN Slice2(matrix, cols, Nothing)
    ELSE IF rows # Nothing THEN Slice2(matrix, Nothing, rows)
    ELSE matrix

\* a gather that hands the results out in the order the tasks completed
Gather_completion_order(results, completion) ==
    [i \in 1..Len(results) |-> results[completion[i]]]

\* dask.compute(*tasks): the results, in the order of the arguments
Gather(results, completion) == [i \in 1..Len(results) |-> results[i]]

Intermediate(result, raw_data, visual_type) ==
    [result |-> result, raw_data |-> raw_data, visual_type |-> visual_type]

\* the positions of the columns called name
ColumnPositions(df, name) == {c \in 1..Len(df.columns) : df.columns[c] = name}

\* a slip of dropna: the subset is ignored, as in DataFrame.dropna()
KeptByAny(df, subset) ==
    SelectSeq([r \in 1..Len(df.values) |-> r],
              LAMBDA r : \A c \in 1..Len(df.columns) : df.values[r][c] # NaN)

\* the rows of df, by position, that DataFrame.dropna(subset=subset) keeps
Kept(df, subset) ==
    SelectSeq([r \in 1..Len(df.values) |-> r],
              LAMBDA r : \A n \in 1..Len(subset) :
                            \A c \in ColumnPositions(df, subset[n]) :
                                df.values[r][c] # NaN)

\* DataFrame.dropna(subset=subset), for a subset of existing columns
dropna(df, subset) ==
    LET keep == Kept(df, subset)
    IN  [columns |-> df.columns, dtypes |-> df.dtypes,
         index |-> [i \in 1..Len(keep) |-> df.index[keep[i]]],
         values |-> [i \in 1..Len(keep) |-> df.values[keep[i]]]]

\* df[[names]], for existing and unique column names
getitem(df, names) ==
    LET pos == [n \in 1..Len(names) |->
                   CHOOSE c \in ColumnPositions(df, names[n]) : TRUE]
    IN  [columns |-> names,
         dtypes |-> [n \in 1..Len(names) |-> df.dtypes[pos[n]]],
         index |-> df.index,
         values |-> [r \in 1..Len(df.values) |->
                        [n \in 1..Len(names) |-> df.values[r][pos[n]]]]]

\* list.remove(x), for an x that occurs: the first occurrence goes
remove(list, x) ==
    LET first == CHOOSE i \in 1..Len(list) :
                     list[i] = x /\ \A j \in 1..(i - 1) : list[j] # x
    IN  SubSeq(list, 1, first - 1) \o SubSeq(list, first + 1, Len(list))

Return == IF entry = "plot_missing" THEN "vis" ELSE "done"

\* -------------------------------------------------- _calc_missing_impact
\* lines 85-91; dropna raises KeyError for a name that is no column
CalcMissingImpact ==
    /\ pc = "_calc_missing_impact"
    /\ calls' = Append(calls, "_calc_missing_impact")
    /\ IF ColumnPositions(pd_data_frame, x_name) = {}
       THEN /\ error' = KeyError
            /\ pc' = "done"
            /\ UNCHANGED intermediate
       ELSE /\ intermediate' =
                   Some(Intermediate(
                       [df_data_drop |-> dropna(pd_data_frame, <<x_name>>),
                        columns_name |-> remove(pd_data_frame.columns, x_name)],
                       [df |-> pd_data_frame, x_name |-> x_name, num_bins |-> 10],
                       "dummy"))
            /\ pc' = Return
            /\ UNCHANGED error
    /\ UNCHANGED <<args, pd_data_frame_value, count_nonzero_list, computed,
                   order, fig, returned>>

\* ------------------------------------------------ _calc_missing_impact_y
\* lines 108-119; df[[x, y]] raises KeyError for a name that is no column
CalcMissingImpactY ==
    /\ pc = "_calc_missing_impact_y"
    /\ calls' = Append(calls, "_calc_missing_impact_y")
    /\ IF \/ ColumnPositions(pd_data_frame, x_name) = {}
          \/ ColumnPositions(pd_data_frame, y_name) = {}
       THEN /\ error' = KeyError
            /\ pc' = "done"
            /\ UNCHANGED intermediate
       ELSE LET df_data_sel == getitem(pd_data_frame, <<x_name, y_name>>)
                df_data_drop == dropna(df_data_sel, <<x_name>>)
            IN  /\ intermediate' =
                       Some(Intermediate(
                           [df_data_drop |-> df_data_drop,
                            columns_name |-> df_data_drop.columns],
                           [df |-> pd_data_frame, x_name |-> x_name,
                            y_name |-> y_name, num_bins |-> 10],
                           "dummy"))
                /\ pc' = Return
                /\ UNCHANGED error
    /\ UNCHANGED <<args, pd_data_frame_value, count_nonzero_list, computed,
                   order, fig, returned>>

\* ------------------------------------------------- _calc_nonzero_count
\* lines 49-55: the null matrix and one delayed task per row of it
CalcNonzeroCountSpawn ==
    /\ pc = "_calc_nonzero_count"
    /\ LET value == isnull(Transpose(pd_data_frame))
           row == Len(value)
           col == Len(pd_data_frame.values)
       IN  /\ pd_data_frame_value' = value
           /\ count_nonzero_list' =
                  [i \in 1..row |-> [data |-> value[i], length |-> col]]
           /\ computed' = [i \in 1..row |-> Nothing]
    /\ order' = <<>>
    /\ calls' = Append(calls, "_calc_nonzero_count")
    /\ pc' = "compute"
    /\ UNCHANGED <<args, intermediate, error, fig, returned>>

\* one delayed task runs; an exception in a task ends dask.compute
RunTask(i) ==
    /\ pc = "compute"
    /\ i \in 1..Len(count_nonzero_list)
    /\ computed[i] = Nothing
    /\ LET task == count_nonzero_list[i]
           rate == _calc_nonzero_rate(task.data, task.length)
       IN  IF Raised(rate)
           THEN /\ error' = Get(rate)
                /\ pc' = "done"
                /\ UNCHANGED <<computed, order>>
           ELSE /\ computed' = [computed EXCEPT ![i] = rate]
                /\ order' = Append(order, i)
                /\ UNCHANGED <<error, pc>>
    /\ UNCHANGED <<args, calls, pd_data_frame_value, count_nonzero_list,
                   intermediate, fig, returned>>

\* lines 56-69: gather, truncate the matrix, build the Intermediate
CalcNonzeroCountGather ==
    /\ pc = "compute"
    /\ \A i \in 1..Len(count_nonzero_list) : computed[i] # Nothing
    /\ LET count_nonzero_compute == Gather(computed, order)
           truncated == Truncate(TimesOne(pd_data_frame_value), num_rows, num_cols)
       IN  /\ pd_data_frame_value' = truncated
           /\ intermediate' =
                  Some(Intermediate([distribution |-> truncated,
                                     count |-> count_nonzero_compute],
                                    [df |-> pd_data_frame], "dummy"))
    /\ pc' = Return
    /\ UNCHANGED <<args, calls, count_nonzero_list, computed, order, error, fig,
                   returned>>

Idle ==
    /\ calls = <<>>
    /\ pd_data_frame_value = <<>>
    /\ count_nonzero_list = <<>>
    /\ computed = <<>>
    /\ order = <<>>
    /\ intermediate = Nothing
    /\ error = None
    /\ fig = None
    /\ returned = Nothing

Caps(n) == {Nothing} \cup {Some(k) : k \in 0..n}

InitCount ==
    /\ pd_data_frame \in Tables(Prefixes(MaxCols), MaxRows, {TYPE_NUM})
    /\ x_name = None
    /\ y_name = None
    /\ num_rows \in Caps(Len(pd_data_frame.values))
    /\ num_cols \in Caps(Len(pd_data_frame.columns))
    /\ entry = "_calc_nonzero_count"
    /\ pc = "_calc_nonzero_count"
    /\ return_intermediate = FALSE
    /\ kinds = {}
    /\ Idle

NextCount ==
    \/ CalcNonzeroCountSpawn
    \/ \E i \in 1..Len(count_nonzero_list) : RunTask(i)
    \/ CalcNonzeroCountGather

SpecCount == InitCount /\ [][NextCount]_vars

\* --------------------------------------- properties of _calc_nonzero_count
R == Len(pd_data_frame.values)
C == Len(pd_data_frame.columns)
Columns == pd_data_frame.columns

MissingInColumn(c) == Cardinality({r \in 1..R : pd_data_frame.values[r][c] = NaN})
MissingInRow(r) == Cardinality({c \in 1..C : pd_data_frame.values[r][c] = NaN})

CountDone == entry = "_calc_nonzero_count" /\ pc = "done"
Returned == intermediate # Nothing
Count == Get(intermediate).result.count
Distribution == Get(intermediate).result.distribution

\* the rate <<n, d>> lies in [0, 1]
InUnit(rate) == rate[2] > 0 /\ 0 <= rate[1] /\ rate[1] <= rate[2]

C7_EmptyTable ==
    (CountDone /\ R = 0 /\ C >= 1) =>
        /\ error = None
        /\ Returned
        /\ Count = <<>>
        /\ \A c \in 1..Len(Distribution) : Distribution[c] = <<>>

\* C8: 'distribution' is the (C x R) 0/1 missingness matrix restricted to its
\* first k columns and first m rows (all of them when the cap is absent), and
\* the density outcome does not depend on the caps: 'count' is the density of
\* the full table, and the call fails only for the table for which it fails
\* without caps (R = 0).
KeptCols == IF num_cols = Nothing THEN C ELSE Min(Get(num_cols), C)
KeptRows == IF num_rows = Nothing THEN R ELSE Min(Get(num_rows), R)

C8_Truncation ==
    CountDone =>
        IF Returned
        THEN /\ Len(Distribution) = KeptCols
             /\ \A c \in 1..KeptCols :
                    /\ Len(Distribution[c]) = KeptRows
                    /\ \A r \in 1..KeptRows :
                           Distribution[c][r] =
                               IF pd_data_frame.values[r][c] = NaN THEN 1 ELSE 0
             /\ Count = [c \in 1..C |-> <<MissingInColumn(c), R>>]
        ELSE R = 0

C8_Witness ==
    /\ CountDone /\ Returned
    /\ num_cols # Nothing /\ 0 < KeptCols /\ KeptCols < C
    /\ num_rows # Nothing /\ 0 < KeptRows /\ KeptRows < R
    /\ KeptRows # KeptCols
    /\ pd_data_frame.values[R][C] = NaN
    /\ pd_data_frame.values[1][1] # NaN

\* C9: in every schedule of the tasks, entry i of the gathered 'count' is the
\* value of the task spawned for index i, and a task step writes exactly one
\* slot, its own.
TaskValue(i) ==
    _calc_nonzero_rate(count_nonzero_list[i].data, count_nonzero_list[i].length)

C9_GatherInIndexOrder ==
    /\ [](CountDone /\ Returned =>
             /\ Len(Count) = Len(count_nonzero_list)
             /\ \A i \in 1..Len(Count) : Count[i] = TaskValue(i))
    /\ [][order' # order =>
             /\ Len(order') = Len(order) + 1
             /\ {i \in 1..Len(computed) : computed'[i] # computed[i]}
                    = {order'[Len(order')]}
             /\ computed[order'[Len(order')]] = Nothing]_vars

C9_Witness ==
    /\ CountDone /\ Returned
    /\ Len(order) >= 2 /\ order[1] > order[2]
    /\ Count[1] # Count[2]


\* ------------------------------------------------------------ plot_missing
\* get_type(pd_data_frame[name]): the classification of the column
get_type(df, name) == df.dtypes[CHOOSE c \in ColumnPositions(df, name) : TRUE]

\* a slip of the gate: only numerical columns pass
Unsupported_not_num(type) == type # TYPE_NUM

\* lines 180-181: the type is neither numerical nor categorical
Unsupported(type) == type # TYPE_NUM /\ type # TYPE_CAT

\* lines 176-183: every column passes the type gate, or the call raises
PlotMissingGate ==
    /\ pc = "plot_missing"
    /\ LET columns_name == pd_data_frame.columns
       IN  IF \E n \in 1..Len(columns_name) :
                  Unsupported(get_type(pd_data_frame, columns_name[n]))
           THEN /\ error' = UnsupportedColumnType
                /\ pc' = "done"
           ELSE /\ pc' = "dispatch"
                /\ UNCHANGED error
    /\ UNCHANGED <<args, calls, pd_data_frame_value, count_nonzero_list,
                   computed, order, intermediate, fig, returned>>

\* lines 184-197: the branch on (x_name, y_name) and the call of the analyzer
PlotMissingDispatch ==
    /\ pc = "dispatch"
    /\ IF x_name # None /\ y_name # None
       THEN pc' = "_calc_missing_impact_y" /\ UNCHANGED error
       ELSE IF x_name # None
       THEN pc' = "_calc_missing_impact" /\ UNCHANGED error
       ELSE IF x_name = None /\ y_name # None
       THEN pc' = "done" /\ error' = InvalidArguments
       ELSE pc' = "_calc_nonzero_count" /\ UNCHANGED error
    /\ UNCHANGED <<args, calls, pd_data_frame_value, count_nonzero_list,
                   computed, order, intermediate, fig, returned>>

\* lines 188, 191, 198: the render routine of the branch the call is in
VisOf(analyzer) ==
    CASE analyzer = "_calc_missing_impact_y" -> "_vis_missing_impact_y"
      [] analyzer = "_calc_missing_impact" -> "_vis_missing_impact"
      [] analyzer = "_calc_nonzero_count" -> "_vis_nonzero_count"

\* lines 188/191/198 and 199-202: render, show, return
PlotMissingRender ==
    /\ pc = "vis"
    /\ LET vis == VisOf(calls[Len(calls)])
       IN  /\ calls' = calls \o <<vis, "show">>
           /\ fig' = vis
           /\ returned' = IF return_intermediate
                           THEN <<vis, Get(intermediate)>>
                           ELSE <<vis>>
    /\ pc' = "done"
    /\ UNCHANGED <<args, pd_data_frame_value, count_nonzero_list, computed,
                   order, intermediate, error>>

NextCall ==
    \/ PlotMissingGate
    \/ PlotMissingDispatch
    \/ CalcMissingImpactY
    \/ CalcMissingImpact
    \/ CalcNonzeroCountSpawn
    \/ \E i \in 1..Len(count_nonzero_list) : RunTask(i)
    \/ CalcNonzeroCountGather
    \/ PlotMissingRender

\* the names a caller can pass: the columns and a name that is no column
ArgNames(df) == Range(df.columns) \cup {NotAColumn}

Init ==
    /\ pd_data_frame \in Tables(Prefixes(MaxCols), MaxDispatchRows, DataType)
    /\ x_name \in {None} \cup ArgNames(pd_data_frame)
    /\ y_name \in {None} \cup ArgNames(pd_data_frame)
    /\ num_rows \in Caps(Len(pd_data_frame.values))
    /\ num_cols \in Caps(Len(pd_data_frame.columns))
    /\ return_intermediate \in BOOLEAN
    /\ entry = "plot_missing"
    /\ pc = "plot_missing"
    /\ kinds = {}
    /\ Idle

Next == NextCall

Spec == Init /\ [][Next]_vars

\* ------------------------------------------------ a caller's series of calls
\* the caller keeps the kind tag of the result, with the analyzer that made
\* it, and calls plot_missing again on the same table
Again ==
    /\ pc = "done"
    /\ kinds' = IF intermediate = Nothing THEN kinds
                ELSE kinds \cup {<<calls[1], Get(intermediate).visual_type>>}
    /\ x_name' \in {None} \cup ArgNames(pd_data_frame)
    /\ y_name' \in {None} \cup ArgNames(pd_data_frame)
    /\ pc' = "plot_missing"
    /\ calls' = <<>>
    /\ pd_data_frame_value' = <<>>
    /\ count_nonzero_list' = <<>>
    /\ computed' = <<>>
    /\ order' = <<>>
    /\ intermediate' = Nothing
    /\ error' = None
    /\ fig' = None
    /\ returned' = Nothing
    /\ UNCHANGED <<pd_data_frame, num_rows, num_cols, entry, return_intermediate>>

InitSession ==
    /\ Init
    /\ \A c \in 1..Len(pd_data_frame.dtypes) : pd_data_frame.dtypes[c] = TYPE_NUM
    /\ num_rows = Nothing
    /\ num_cols = Nothing
    /\ return_intermediate

NextSession == NextCall \/ Again

SpecSession == InitSession /\ [][NextSession]_vars

\* ------------------------------------- direct calls of the impact analyzers
ImpactColumnLists ==
    Prefixes(MaxImpactCols) \cup {Reverse(p) : p \in Prefixes(MaxImpactCols)}

InitImpact ==
    /\ pd_data_frame \in Tables(ImpactColumnLists, MaxImpactRows, {TYPE_NUM})
    /\ entry \in {"_calc_missing_impact", "_calc_missing_impact_y"}
    /\ x_name \in ArgNames(pd_data_frame)
    /\ y_name \in IF entry = "_calc_missing_impact" THEN {None}
                  ELSE ArgNames(pd_data_frame)
    /\ num_rows = Nothing
    /\ num_cols = Nothing
    /\ pc = entry
    /\ return_intermediate = FALSE
    /\ kinds = {}
    /\ Idle

NextImpact ==
    \/ CalcMissingImpact
    \/ CalcMissingImpactY

SpecImpact == InitImpact /\ [][NextImpact]_vars

\* ----------------------------------------- properties of the impact analyzers
Drop == Get(intermediate).result.df_data_drop
ColumnsName == Get(intermediate).result.columns_name

\* the position of name in the table's columns
PositionOf(name) == CHOOSE c \in 1..C : Columns[c] = name

\* C2 as stated: with x # y, both columns of the table, the filtered table
\* has exactly the two columns {x, y}, every row of it has x present, and
\* 'columns_name' is exactly [y].
C2_NameListIsY ==
    (/\ entry = "_calc_missing_impact_y" /\ pc = "done"
     /\ x_name # y_name
     /\ {x_name, y_name} \subseteq Range(Columns)) =>
        /\ Returned
        /\ Len(Drop.columns) = 2
        /\ Range(Drop.columns) = {x_name, y_name}
        /\ \A i \in 1..Len(Drop.values) :
               \A c \in ColumnPositions(Drop, x_name) : Drop.values[i][c] # NaN
        /\ ColumnsName = <<y_name>>

\* C3: for a column x of the table, the filtered table holds exactly the
\* input rows with x present, in input order, and none with x missing;
\* 'columns_name' has C - 1 names, lacks exactly x and keeps the table's order.
C3_SingleColumnImpact ==
    (/\ entry = "_calc_missing_impact" /\ pc = "done"
     /\ x_name \in Range(Columns)) =>
        /\ error = None
        /\ Returned
        /\ Drop.columns = Columns
        /\ {Drop.index[i] : i \in 1..Len(Drop.index)} =
               {r - 1 : r \in {q \in 1..R :
                                 pd_data_frame.values[q][PositionOf(x_name)] # NaN}}
        /\ \A i \in 1..Len(Drop.index) :
               /\ i > 1 => Drop.index[i - 1] < Drop.index[i]
               /\ Drop.values[i] = pd_data_frame.values[Drop.index[i] + 1]
               /\ Drop.values[i][PositionOf(x_name)] # NaN
        /\ Len(Drop.values) = Len(Drop.index)
        /\ Len(ColumnsName) = C - 1
        /\ Range(ColumnsName) = Range(Columns) \ {x_name}
        /\ \A i \in 1..Len(ColumnsName) : \A j \in 1..Len(ColumnsName) :
               i < j => PositionOf(ColumnsName[i]) < PositionOf(ColumnsName[j])

C3_Witness ==
    /\ entry = "_calc_missing_impact" /\ pc = "done" /\ Returned
    /\ C >= 3 /\ x_name = Columns[2] /\ Columns[1] = "C"
    /\ Len(Drop.index) = 1 /\ Drop.index[1] = 1
    /\ \E c \in 1..C : Drop.values[1][c] = NaN

\* ------------------------------------------------ properties of plot_missing
PlotMissingDone == entry = "plot_missing" /\ pc = "done"
AnalyzersCalled == SelectSeq(calls, LAMBDA f : f \in Analyzers)
RendersCalled ==
    SelectSeq(calls, LAMBDA f : f \in {"_vis_missing_impact_y",
                                       "_vis_missing_impact", "_vis_nonzero_count"})
AllSupported == \A c \in 1..C : pd_data_frame.dtypes[c] \in {TYPE_NUM, TYPE_CAT}

\* C4 as stated: with x absent and y given the call always fails with
\* InvalidArguments, whatever the table.
C4_AlwaysInvalidArguments ==
    (PlotMissingDone /\ x_name = None /\ y_name # None) => error = InvalidArguments

\* C4 amended: with x absent and y given the call always fails, before any
\* analyzer or render routine: with InvalidArguments when every column is
\* NUMERIC or CATEGORICAL, with UnsupportedColumnType otherwise.
C4_FailsGateFirst ==
    (PlotMissingDone /\ x_name = None /\ y_name # None) =>
        /\ error = IF AllSupported THEN InvalidArguments ELSE UnsupportedColumnType
        /\ calls = <<>>
        /\ returned = Nothing

C4_Witness ==
    /\ PlotMissingDone /\ x_name = None /\ y_name = "B"
    /\ error = InvalidArguments
    /\ pd_data_frame.dtypes = <<TYPE_CAT, TYPE_NUM>>
    /\ R >= 1

\* C5 as stated: for a table of supported columns and existing named columns,
\* a call invokes exactly one analyzer and its render routine, chosen by which
\* of x and y are given; with x absent and y given it invokes neither and fails.
C5_OneAnalyzerOneRender ==
    (/\ PlotMissingDone /\ AllSupported
     /\ x_name \in {None} \cup Range(Columns)
     /\ y_name \in {None} \cup Range(Columns)) =>
        IF x_name = None /\ y_name # None
        THEN calls = <<>> /\ error # None
        ELSE /\ AnalyzersCalled =
                    IF x_name = None THEN <<"_calc_nonzero_count">>
                    ELSE IF y_name = None THEN <<"_calc_missing_impact">>
                    ELSE <<"_calc_missing_impact_y">>
             /\ RendersCalled =
                    IF x_name = None THEN <<"_vis_nonzero_count">>
                    ELSE IF y_name = None THEN <<"_vis_missing_impact">>
                    ELSE <<"_vis_missing_impact_y">>

\* the tables on which C5 fails are the empty ones, in the (absent, absent)
\* branch: the analyzer raises ZeroDivisionError and nothing is rendered
C5_FailsOnlyOnEmptyTable ==
    (~C5_OneAnalyzerOneRender) =>
        /\ R = 0 /\ x_name = None /\ y_name = None
        /\ error = ZeroDivisionError
        /\ calls = <<"_calc_nonzero_count">>

\* C6 as stated: a call that ends with UnsupportedColumnType, ColumnNotFound
\* or InvalidArguments has started no analyzer.
C6_ErrorsBeforeAnalyzers ==
    (PlotMissingDone /\ error \in {UnsupportedColumnType, KeyError, InvalidArguments})
        => AnalyzersCalled = <<>>

\* C10 as stated: the results of two different analyzers never carry the
\* same kind tag.
C10_KindsDiffer ==
    \A p \in kinds : \A q \in kinds : p[1] # q[1] => p[2] # q[2]

====
